---- MODULE Spec2Model ----
(***************************************************************************)
(* pare: command-line client of the Condenser URL shortening service.      *)
(*                                                                         *)
(* One invocation of the program is modelled as a sequential process:      *)
(* main dispatches on the parsed command, the handler (shorten, rm, meta)  *)
(* calls doRequest, which resolves the configuration (serverDetails),      *)
(* serialises the body, builds the request (makeRequest), hands it to the  *)
(* HTTP client, reads the answer, and returns the status code to the       *)
(* handler, which prints and exits.                                        *)
(*                                                                         *)
(* Text is modelled by TLA+ strings; a JSON object is the sequence of its  *)
(* <<key, value>> members in the order encoding/json emits them.           *)
(***************************************************************************)
EXTENDS Integers, Sequences, FiniteSets, TLC

VARIABLES
    args,   \* the parsed command line (kingpin's flag and argument targets)
    env,    \* what the process finds outside: user lookup and ~/.pare.json
    proc,   \* the running process: position, locals, output streams, exit
    twin    \* a second run of the same command line with --debug flipped

vars == <<args, env, proc, twin>>

----------------------------------------------------------------------------
(* Bounds of the model.                                                    *)

\* how many status codes outside 200, 404 and 409 the server may answer
NumUnexpected == 2

----------------------------------------------------------------------------
(* Constants of the program.                                               *)

ShortenEndpoint == "/api/shorten"
DeleteEndpoint == "/api/delete"
MetaEndpoint == "/api/meta/"

StatusOK == 200
StatusConflict == 409
StatusNotFound == 404

\* os.Exit hands the low eight bits of its argument to the parent
ExitStatus(n) == n % 256

----------------------------------------------------------------------------
(* Values the inputs are drawn from.                                       *)

\* a *url.URL as kingpin's URL() parser leaves it; isNil is the nil pointer
NilURL == [isNil |-> TRUE, Scheme |-> "", Host |-> "", Path |-> ""]
MkURL(s, h, p) == [isNil |-> FALSE, Scheme |-> s, Host |-> h, Path |-> p]

ServerFlags ==
    { NilURL, MkURL("", "", ""), MkURL("https", "t.example", "") }
ApiKeyFlags == { "", "k2" }
ShortenUrls == { MkURL("http", "a.com", ""), MkURL("http", "b.com", "/x") }
Shortcodes == { "", "foo" }
Metas == { "", "note" }
Codes == { "abc", "xyz" }

\* a Server value of the config file that net/url refuses to parse
BadServer == "http://bad host"
FileServers == { "", "https://s.example", BadServer }
FileKeys == { "", "k1" }

\* ~/.pare.json: missing, unreadable, not JSON for a Config, or a Config
ConfigFiles ==
    { [kind |-> k, APIKey |-> "", Server |-> ""] :
        k \in { "absent", "unreadable", "malformed" } }
    \cup { [kind |-> "valid", APIKey |-> k, Server |-> s] :
             k \in FileKeys, s \in FileServers }

CommandLines ==
    { [cmd |-> "shorten", serverFlag |-> sf, apiKeyFlag |-> kf,
       shortenUrlArg |-> u, shortcodeArg |-> c, metaArg |-> m,
       rmShortcodeArg |-> "", failNoexistArg |-> FALSE,
       metaJsonOut |-> FALSE, metaCodeArg |-> ""] :
        sf \in ServerFlags, kf \in ApiKeyFlags, u \in ShortenUrls,
        c \in Shortcodes, m \in Metas }
    \cup
    { [cmd |-> "delete", serverFlag |-> sf, apiKeyFlag |-> kf,
       shortenUrlArg |-> NilURL, shortcodeArg |-> "", metaArg |-> "",
       rmShortcodeArg |-> c, failNoexistArg |-> f,
       metaJsonOut |-> FALSE, metaCodeArg |-> ""] :
        sf \in ServerFlags, kf \in ApiKeyFlags, c \in Codes, f \in BOOLEAN }
    \cup
    { [cmd |-> "meta", serverFlag |-> sf, apiKeyFlag |-> kf,
       shortenUrlArg |-> NilURL, shortcodeArg |-> "", metaArg |-> "",
       rmShortcodeArg |-> "", failNoexistArg |-> FALSE,
       metaJsonOut |-> j, metaCodeArg |-> c] :
        sf \in ServerFlags, kf \in ApiKeyFlags, c \in Codes, j \in BOOLEAN }

Statuses ==
    { StatusOK, StatusNotFound, StatusConflict }
    \cup { 500 + k : k \in 0 .. (NumUnexpected - 1) }

----------------------------------------------------------------------------
(* Library conversions the program relies on.                              *)

\* (*url.URL).String(): scheme ":" "//" host path, each part when present
URLString(u) ==
    (IF u.Scheme # "" THEN u.Scheme \o ":" ELSE "")
    \o (IF u.Scheme # "" \/ u.Host # ""
        THEN (IF u.Host # "" \/ u.Path # "" THEN "//" ELSE "") \o u.Host
        ELSE "")
    \o u.Path

\* strings.ToUpper on the codes of the model
ToUpper(s) ==
    CASE s = "abc" -> "ABC"
      [] s = "xyz" -> "XYZ"
      [] OTHER -> s

----------------------------------------------------------------------------
(* encoding/json on the types of the program.                              *)

\* a JSON value: a string, null, or an object
JStr(s) == <<"string", s>>
JNull == <<"null", "">>
JObj(o) == <<"object", o>>
IsStr(v) == v[1] = "string"

HasKey(obj, k) == \E i \in 1 .. Len(obj) : obj[i][1] = k
Get(obj, k) == obj[CHOOSE i \in 1 .. Len(obj) : obj[i][1] = k][2]
\* an object of one member whose value is the string v
Member(k, v) == << <<k, JStr(v)>> >>
\* an object of one member whose value is the object o
ObjMember(k, o) == << <<k, JObj(o)>> >>

\* mutant: the omitempty tag forgotten
OmitEmpty_Never(k, v) == Member(k, v)

\* a field tagged omitempty is left out when it holds the empty string
OmitEmpty(k, v) == IF v = "" THEN <<>> ELSE Member(k, v)

\* json.Marshal of ShortenRequest: url always, code and meta omitempty
MarshalShortenRequest(b) ==
    Member("url", b.Url) \o OmitEmpty("code", b.Shortcode)
        \o OmitEmpty("meta", b.Meta)

\* json.Marshal of DeleteRequest: code always
MarshalDeleteRequest(b) == Member("code", b.Code)

\* json.Marshal of the body doRequest is given
Marshal(b) ==
    CASE b.type = "ShortenRequest" -> MarshalShortenRequest(b)
      [] b.type = "DeleteRequest" -> MarshalDeleteRequest(b)
      [] OTHER -> <<>>

\* a response body: not JSON at all, the JSON value null, or a JSON object
MalformedBody == [json |-> "malformed", obj |-> <<>>]
NullBody == [json |-> "null", obj |-> <<>>]
ObjectBody(o) == [json |-> "object", obj |-> o]

\* time.Time accepts RFC 3339 text only; the zero time is year 1
GoodTime == "2017-03-04T05:06:07Z"
BadTime == "yesterday"
ZeroTime == "0001-01-01T00:00:00Z"

\* Time.Format(time.UnixDate)
FormatUnixDate(t) ==
    CASE t = GoodTime -> "Sat Mar  4 05:06:07 UTC 2017"
      [] t = ZeroTime -> "Mon Jan  1 00:00:00 UTC 0001"
      [] OTHER -> t

\* a string field of the target takes the member's value when it is there
Field(obj, k, old) ==
    IF HasKey(obj, k) /\ IsStr(Get(obj, k)) THEN Get(obj, k)[2] ELSE old

\* json.Unmarshal into LinkMetadata
UnmarshalLinkMetadata(m, obj) ==
    [ok |-> Field(obj, "time", ZeroTime) # BadTime,
     val |-> [Owner |-> Field(obj, "owner", m.Owner),
              Time |-> Field(obj, "time", m.Time),
              UserMeta |-> Field(obj, "user_meta", m.UserMeta)]]

\* json.Unmarshal(rxBody, &response): an error for text that is not JSON or
\* does not fit the target, the target untouched for null, and for an
\* object every member the target has a field for stored in it
Unmarshal(r, body) ==
    CASE body.json = "malformed" -> [ok |-> FALSE, val |-> r]
      [] body.json = "null" -> [ok |-> TRUE, val |-> r]
      [] r.type = "ShortenResponse" ->
            [ok |-> TRUE,
             val |-> [r EXCEPT !.ShortUrl = Field(body.obj, "short_url", @)]]
      [] r.type = "DeleteResponse" ->
            [ok |-> TRUE,
             val |-> [r EXCEPT !.Code = Field(body.obj, "code", @),
                               !.Status = Field(body.obj, "status", @)]]
      [] OTHER ->
            LET lm == IF HasKey(body.obj, "meta")
                      THEN UnmarshalLinkMetadata(r.Meta, Get(body.obj, "meta")[2])
                      ELSE [ok |-> TRUE, val |-> r.Meta]
            IN  [ok |-> lm.ok,
                 val |-> [r EXCEPT !.FullUrl = Field(body.obj, "full_url", @),
                                   !.Meta = lm.val]]

Quote(s) == "\"" \o s \o "\""

\* json.MarshalIndent of MetaResponse (one line here; user_meta omitempty)
MarshalMetaResponse(r) ==
    "{" \o Quote("full_url") \o ": " \o Quote(r.FullUrl) \o ", "
        \o Quote("meta") \o ": {"
        \o Quote("owner") \o ": " \o Quote(r.Meta.Owner) \o ", "
        \o Quote("time") \o ": " \o Quote(r.Meta.Time)
        \o (IF r.Meta.UserMeta # ""
            THEN ", " \o Quote("user_meta") \o ": " \o Quote(r.Meta.UserMeta)
            ELSE "")
        \o "}}"

\* the bodies the server may answer a command with, whatever the status
Bodies(a) ==
    CASE a.cmd = "shorten" ->
            { MalformedBody, NullBody, ObjectBody(<<>>),
              ObjectBody(Member("short_url", "https://s.example/abc")) }
      [] a.cmd = "delete" ->
            { MalformedBody, NullBody }
            \cup { ObjectBody(Member("code", a.rmShortcodeArg)
                              \o Member("status", s)) :
                     s \in { "deleted", "noexist" } }
      [] OTHER ->
            { MalformedBody,
              ObjectBody(Member("full_url", "http://a.com")
                  \o ObjMember("meta", Member("owner", "o")
                                    \o Member("time", BadTime))) }
            \cup { ObjectBody(Member("full_url", "http://a.com")
                       \o ObjMember("meta", Member("owner", "o")
                                         \o Member("time", GoodTime) \o um)) :
                     um \in { <<>>, Member("user_meta", "note") } }

----------------------------------------------------------------------------
(* The process.                                                            *)

ZeroConfig == [APIKey |-> "", Server |-> ""]
NoRequest ==
    [method |-> "", url |-> "", body |-> <<>>, close |-> FALSE,
     header |-> [Accept |-> "", ContentType |-> "", XAPIKey |-> "",
                 UserAgent |-> ""]]
NoResponse == [status |-> 0, body |-> NullBody]

\* the process as main finds it, kingpin having parsed the command line
NewProc(d) ==
    [pc |-> "main", debugFlag |-> d,
     method |-> "", endpoint |-> "",
     body |-> [type |-> "Empty"], respStruct |-> [type |-> "Empty"],
     config |-> ZeroConfig, txBody |-> <<>>, req |-> NoRequest,
     issued |-> <<>>, resp |-> NoResponse, code |-> 0, unmarshals |-> 0,
     stdout |-> <<>>, stderr |-> <<>>, exit |-> 0]

\* errPrintf: one line on the diagnostic stream
errPrintf(p, line) == [p EXCEPT !.stderr = Append(@, line)]

\* fmt.Println and fmt.Printf with a trailing newline: one line on stdout
Println(p, line) == [p EXCEPT !.stdout = Append(@, line)]

\* mutant: the trace goes to stdout
debug_Stdout(p, fmat) == IF p.debugFlag THEN Println(p, fmat) ELSE p

\* debug: a trace line on the diagnostic stream, under --debug only
debug(p, fmat) == IF p.debugFlag THEN errPrintf(p, fmat) ELSE p

\* os.Exit(n)
Exit(p, n) == [p EXCEPT !.pc = "exited", !.exit = ExitStatus(n)]

\* kingpin.Fatalf and kingpin.FatalIfError with an error: the message on
\* the diagnostic stream, then exit status 1
Fatal(p, msg) == Exit(errPrintf(p, "pare: error: " \o msg), 1)

\* main returns: exit status 0
Return(p) == Exit(p, 0)

\* mutant: a file that does not parse is passed over like a missing one
configFileError_ParseIgnored(e) ==
    IF e.file.kind = "unreadable" THEN "error opening ~/.pare.json" ELSE ""

\* serverDetails, reading ~/.pare.json: the fatal error, "" when there is
\* none (the file is missing, or it is read and parsed)
configFileError(e) ==
    CASE e.file.kind = "unreadable" -> "error opening ~/.pare.json"
      [] e.file.kind = "malformed" -> "error parsing ~/.pare.json"
      [] OTHER -> ""

\* serverDetails, the file's Config: retUrl and apikey stay empty unless
\* the file was read and parsed
fileConfig(e) ==
    IF e.file.kind = "valid"
    THEN [APIKey |-> e.file.APIKey, Server |-> e.file.Server]
    ELSE ZeroConfig

\* serverDetails, --server: a flag that was given replaces the file's value
overrideServer(retUrl, serverFlag) ==
    IF ~serverFlag.isNil THEN URLString(serverFlag) ELSE retUrl

\* mutant: the test for the empty string forgotten
overrideApiKey_Always(apikey, apiKeyFlag) == apiKeyFlag

\* serverDetails, --apikey: a non-empty flag replaces the file's value
overrideApiKey(apikey, apiKeyFlag) ==
    IF apiKeyFlag # "" THEN apiKeyFlag ELSE apikey

\* serverDetails: the file's values unless it is missing, then the flags
serverDetails(p, a, e) ==
    IF ~e.userOK
    THEN Fatal(p, "unable to get current user HOME")
    ELSE IF configFileError(e) # ""
    THEN Fatal(p, configFileError(e))
    ELSE
        LET q == IF e.file.kind = "absent"
                 THEN debug(p, "~/.pare.json doesn't exist; ignoring.")
                 ELSE p
            conf == fileConfig(e)
        IN  [q EXCEPT !.config =
                [APIKey |-> overrideApiKey(conf.APIKey, a.apiKeyFlag),
                 Server |-> overrideServer(conf.Server, a.serverFlag)]]

\* http.NewRequest refuses a URL that does not parse
URLParses(fullUrl) ==
    \A c \in Codes :
        fullUrl \notin { BadServer \o ShortenEndpoint,
                         BadServer \o DeleteEndpoint,
                         BadServer \o MetaEndpoint \o c }

\* mutant: the key header left empty
requestHeader_NoKey(conf) ==
    [Accept |-> "application/json", ContentType |-> "application/json",
     XAPIKey |-> "", UserAgent |-> "Pare (Go net/http)"]

\* makeRequest, the header map
requestHeader(conf) ==
    [Accept |-> "application/json", ContentType |-> "application/json",
     XAPIKey |-> conf.APIKey, UserAgent |-> "Pare (Go net/http)"]

\* makeRequest: the URL is the server followed by the endpoint
makeRequest(conf, method, endpoint, body) ==
    LET fullUrl == conf.Server \o endpoint
    IN  [err |-> ~URLParses(fullUrl),
         req |-> [method |-> method, url |-> fullUrl, body |-> body,
                  close |-> TRUE, header |-> requestHeader(conf)]]

\* main's dispatch and the handler up to its call of doRequest
shortenBody(a) ==
    [type |-> "ShortenRequest", Url |-> URLString(a.shortenUrlArg),
     Shortcode |-> a.shortcodeArg, Meta |-> a.metaArg]

shortenCall(p, a) ==
    [debug(p, "shorten: %s") EXCEPT
        !.body = shortenBody(a),
        !.respStruct = [type |-> "ShortenResponse", ShortUrl |-> ""],
        !.method = "POST", !.endpoint = ShortenEndpoint, !.pc = "config"]

rmCall(p, a) ==
    [debug(p, "rm: %s") EXCEPT
        !.body = [type |-> "DeleteRequest", Code |-> a.rmShortcodeArg],
        !.respStruct = [type |-> "DeleteResponse", Code |-> "", Status |-> ""],
        !.method = "POST", !.endpoint = DeleteEndpoint, !.pc = "config"]

metaCall(p, a) ==
    [debug(p, "meta: %s") EXCEPT
        !.body = [type |-> "Empty"],
        !.respStruct = [type |-> "MetaResponse", FullUrl |-> "",
                        Meta |-> [Owner |-> "", Time |-> ZeroTime,
                                  UserMeta |-> ""]],
        !.method = "GET", !.endpoint = MetaEndpoint \o a.metaCodeArg,
        !.pc = "config"]

main(p, a) ==
    CASE a.cmd = "shorten" -> shortenCall(p, a)
      [] a.cmd = "delete" -> rmCall(p, a)
      [] OTHER -> metaCall(p, a)

\* doRequest, first part: the configuration
doRequestConfig(p, a, e) ==
    LET q == serverDetails(p, a, e)
    IN  IF q.pc = "exited" THEN q
        ELSE [debug(q, "config: %+v") EXCEPT !.pc = "build"]

\* doRequest, second part: the body's JSON and the request
doRequestBuild(p) ==
    LET txBody == Marshal(p.body)
        q == debug([p EXCEPT !.txBody = txBody], "txBody: %v")
        made == makeRequest(q.config, q.method, q.endpoint, txBody)
    IN  IF made.err THEN Fatal(q, "error constructing request")
        ELSE [debug(q, "req: %#v") EXCEPT !.req = made.req, !.pc = "do"]

\* what client.Do may come back with: an error of the transport, or the
\* server's status and body
TransportError == [err |-> TRUE, status |-> 0, body |-> NullBody]
Answers(a) ==
    { [err |-> FALSE, status |-> s, body |-> b] :
        s \in Statuses, b \in Bodies(a) }

\* a URL without a scheme never leaves the client
Routable(url) ==
    \A c \in Codes :
        url \notin { ShortenEndpoint, DeleteEndpoint, MetaEndpoint \o c }

Outcomes(p, a) ==
    { TransportError } \cup (IF Routable(p.req.url) THEN Answers(a) ELSE {})

\* doRequest, third part: the request is handed to the client
doRequestDo(p, o) ==
    LET q == [p EXCEPT !.issued = Append(@, p.req)]
    IN  IF o.err
        THEN Fatal(q, "error executing POST to condenser server")
        ELSE [q EXCEPT !.resp = [status |-> o.status, body |-> o.body],
                       !.pc = "receive"]

\* doRequest, last part: any status but 200 goes back to the handler as it
\* is; the body of a 200 is read and deserialised into the handler's struct
doRequestReceive(p) ==
    IF p.resp.status # StatusOK
    THEN [p EXCEPT !.code = p.resp.status, !.pc = "handle"]
    ELSE
        LET q == [debug(p, "rxBody: %v") EXCEPT !.unmarshals = @ + 1]
            u == Unmarshal(q.respStruct, q.resp.body)
        IN  IF ~u.ok THEN Fatal(q, "error parsing response")
            ELSE [q EXCEPT !.respStruct = u.val, !.code = q.resp.status,
                           !.pc = "handle"]

\* mutant: "conflict" printed like a result
conflict_Stdout(p) == Exit(Println(p, "conflict"), -1)

\* shorten, status 409: "conflict" through errPrintf, then os.Exit(-1)
conflict(p) == Exit(errPrintf(p, "conflict"), -1)

\* shorten, after doRequest
shortenResult(p) ==
    IF p.code = StatusConflict
    THEN conflict(p)
    ELSE IF p.code # StatusOK
    THEN Fatal(p, "unexpected response: unexpected response code: "
                    \o ToString(p.code))
    ELSE Return(Println(p, p.respStruct.ShortUrl))

\* mutant: the status is reported and the handler goes on to its result
unexpectedCode_GoesOn(p) ==
    Return(errPrintf(p, "unexpected response code: " \o ToString(p.code)))

\* rm and meta, a status they have no branch for: kingpin.Fatalf
unexpectedCode(p) ==
    Fatal(p, "unexpected response code: " \o ToString(p.code))

\* mutant: --fail-no-exist not consulted
rmExit_IgnoreFlag(p, a) ==
    IF p.respStruct.Status = "noexist" THEN Exit(p, 1) ELSE Return(p)

\* rm, after printing: exit status 1 for "noexist" under --fail-no-exist
rmExit(p, a) ==
    IF a.failNoexistArg /\ p.respStruct.Status = "noexist"
    THEN Exit(p, 1)
    ELSE Return(p)

\* rm, after doRequest
rmResult(p, a) ==
    IF p.code # StatusOK
    THEN unexpectedCode(p)
    ELSE rmExit(Println(p, p.respStruct.Code \o "/" \o p.respStruct.Status), a)

\* mutant: "noexist" printed, and the process ends as on success
noexist_ExitZero(p) == Return(Println(p, "noexist"))

\* meta, status 404: "noexist" on stdout, then os.Exit(1)
noexist(p) == Exit(Println(p, "noexist"), 1)

\* meta, after doRequest
metaResult(p, a) ==
    IF p.code = StatusNotFound
    THEN noexist(p)
    ELSE IF p.code # StatusOK
    THEN unexpectedCode(p)
    ELSE IF a.metaJsonOut
    THEN Return(Println(p, MarshalMetaResponse(p.respStruct)))
    ELSE
        LET r == p.respStruct
            q1 == Println(p, "Code: " \o ToUpper(a.metaCodeArg))
            q2 == Println(q1, "Full URL: " \o r.FullUrl)
            q3 == Println(q2, "Owner: " \o r.Meta.Owner)
            q4 == Println(q3, "Created at: " \o FormatUnixDate(r.Meta.Time))
            q5 == IF r.Meta.UserMeta # ""
                  THEN Println(q4, "User-defined metadata: " \o r.Meta.UserMeta)
                  ELSE q4
        IN  Return(q5)

----------------------------------------------------------------------------
(* One invocation.                                                         *)

Environments ==
    { [userOK |-> u, file |-> f] : u \in BOOLEAN, f \in ConfigFiles }

Init ==
    /\ args \in CommandLines
    /\ env \in Environments
    /\ \E d \in BOOLEAN : proc = NewProc(d) /\ twin = NewProc(~d)

Main ==
    /\ proc.pc = "main"
    /\ proc' = main(proc, args)
    /\ UNCHANGED <<args, env, twin>>

Config ==
    /\ proc.pc = "config"
    /\ proc' = doRequestConfig(proc, args, env)
    /\ UNCHANGED <<args, env, twin>>

Build ==
    /\ proc.pc = "build"
    /\ proc' = doRequestBuild(proc)
    /\ UNCHANGED <<args, env, twin>>

Do ==
    /\ proc.pc = "do"
    /\ \E o \in Outcomes(proc, args) : proc' = doRequestDo(proc, o)
    /\ UNCHANGED <<args, env, twin>>

Receive ==
    /\ proc.pc = "receive"
    /\ proc' = doRequestReceive(proc)
    /\ UNCHANGED <<args, env, twin>>

Shorten ==
    /\ proc.pc = "handle" /\ args.cmd = "shorten"
    /\ proc' = shortenResult(proc)
    /\ UNCHANGED <<args, env, twin>>

Rm ==
    /\ proc.pc = "handle" /\ args.cmd = "delete"
    /\ proc' = rmResult(proc, args)
    /\ UNCHANGED <<args, env, twin>>

Meta ==
    /\ proc.pc = "handle" /\ args.cmd = "meta"
    /\ proc' = metaResult(proc, args)
    /\ UNCHANGED <<args, env, twin>>

Next == Main \/ Config \/ Build \/ Do \/ Receive \/ Shorten \/ Rm \/ Meta

Spec == Init /\ [][Next]_vars

----------------------------------------------------------------------------
(* Two runs of one command line, with --debug and without, side by side:   *)
(* both find the same environment and get the same answer from the server. *)

\* the step a process takes from where it stands, o being what client.Do
\* comes back with
Step(p, a, e, o) ==
    CASE p.pc = "main" -> main(p, a)
      [] p.pc = "config" -> doRequestConfig(p, a, e)
      [] p.pc = "build" -> doRequestBuild(p)
      [] p.pc = "do" ->
            doRequestDo(p, IF o \in Outcomes(p, a) THEN o ELSE TransportError)
      [] p.pc = "receive" -> doRequestReceive(p)
      [] p.pc = "handle" /\ a.cmd = "shorten" -> shortenResult(p)
      [] p.pc = "handle" /\ a.cmd = "delete" -> rmResult(p, a)
      [] p.pc = "handle" /\ a.cmd = "meta" -> metaResult(p, a)
      [] OTHER -> p

PairStep ==
    /\ proc.pc # "exited" \/ twin.pc # "exited"
    /\ \E o \in { TransportError }
                \cup (IF "do" \in { proc.pc, twin.pc }
                      THEN Answers(args) ELSE {}) :
          /\ proc' = Step(proc, args, env, o)
          /\ twin' = Step(twin, args, env, o)
    /\ UNCHANGED <<args, env>>

SpecPair == Init /\ [][PairStep]_vars

----------------------------------------------------------------------------
(* The body of a shorten request under each definition of ShortenRequest   *)
(* the source holds: string fields tagged omitempty, and pointer fields    *)
(* without the tag.                                                        *)

\* a *string: kingpin's String() target is allocated, never nil
StringPtr(s) == [isNil |-> FALSE, val |-> s]

\* a pointer field without omitempty: null for nil, else the string
PtrMember(k, ptr) ==
    IF ptr.isNil THEN << <<k, JNull>> >> ELSE Member(k, ptr.val)

\* shorten's bodyStruct with the pointer-typed ShortenRequest: the fields
\* are the flags' targets themselves
shortenBodyPtr(a) ==
    [type |-> "ShortenRequest", Url |-> URLString(a.shortenUrlArg),
     Shortcode |-> StringPtr(a.shortcodeArg), Meta |-> StringPtr(a.metaArg)]

\* json.Marshal of the pointer-typed ShortenRequest: all three members
MarshalShortenRequestPtr(b) ==
    Member("url", b.Url) \o PtrMember("code", b.Shortcode)
        \o PtrMember("meta", b.Meta)

Definitions == { "omitempty", "pointer" }

InitJSON ==
    /\ args \in { a \in CommandLines : a.cmd = "shorten" }
    /\ env = [userOK |-> TRUE,
              file |-> [kind |-> "absent", APIKey |-> "", Server |-> ""]]
    /\ \E d \in Definitions :
          proc = [pc |-> "main", definition |-> d,
                  body |-> [type |-> "Empty"], txBody |-> <<>>]
    /\ twin = NewProc(FALSE)

ShortenBody ==
    /\ proc.pc = "main"
    /\ proc' = [proc EXCEPT
                  !.body = IF proc.definition = "omitempty"
                           THEN shortenBody(args) ELSE shortenBodyPtr(args),
                  !.pc = "marshal"]
    /\ UNCHANGED <<args, env, twin>>

MarshalBody ==
    /\ proc.pc = "marshal"
    /\ proc' = [proc EXCEPT
                  !.txBody = IF proc.definition = "omitempty"
                             THEN MarshalShortenRequest(proc.body)
                             ELSE MarshalShortenRequestPtr(proc.body),
                  !.pc = "marshalled"]
    /\ UNCHANGED <<args, env, twin>>

NextJSON == ShortenBody \/ MarshalBody

SpecJSON == InitJSON /\ [][NextJSON]_vars

----------------------------------------------------------------------------
(* Properties.                                                             *)

Exited == proc.pc = "exited"
\* the client came back with the server's answer
Answered == proc.resp.status # 0
\* serverDetails returned a Config instead of ending the process
ConfigResolved ==
    /\ proc.pc \notin { "main", "config" }
    /\ env.userOK
    /\ env.file.kind \in { "absent", "valid" }
Last(seq) == seq[Len(seq)]

C2_ConflictOnStdout ==
    (Exited /\ args.cmd = "shorten" /\ proc.resp.status = 409) =>
        /\ \E i \in 1 .. Len(proc.stdout) : proc.stdout[i] = "conflict"
        /\ proc.exit # 0
        /\ proc.unmarshals = 0

\* C2 amended: a 409 answer to shorten puts the line "conflict" on stderr
\* and nothing on stdout, the exit status is not 0 (os.Exit(-1): 255) and
\* the body is never deserialised.
C2_ConflictOnStderr ==
    (Exited /\ args.cmd = "shorten" /\ proc.resp.status = 409) =>
        /\ proc.stderr # <<>> /\ Last(proc.stderr) = "conflict"
        /\ proc.stdout = <<>>
        /\ proc.exit # 0 /\ proc.exit = 255
        /\ proc.unmarshals = 0

C2_Witness ==
    /\ Exited /\ args.cmd = "shorten" /\ proc.resp.status = 409
    /\ proc.resp.body.json = "object"
    /\ proc.exit = 255

\* C3: a 404 answer to meta puts exactly "noexist" on stdout, none of the
\* metadata lines, and the exit status is 1, with --json or without.
C3_MetaNotFound ==
    (Exited /\ args.cmd = "meta" /\ proc.resp.status = 404) =>
        /\ proc.stdout = << "noexist" >>
        /\ proc.exit = 1

C3_Witness ==
    /\ Exited /\ args.cmd = "meta" /\ proc.resp.status = 404
    /\ args.metaJsonOut
    /\ proc.resp.body.json = "object"
    /\ proc.stdout = << "noexist" >>

\* the members of the answer's body as text, the empty string when missing
BodyField(k) == Field(proc.resp.body.obj, k, "")

\* C4: after a 200 answer to delete whose body was deserialised, the exit
\* status is 1 exactly when the status member is "noexist" and
\* --fail-no-exist is set, and 0 otherwise; stdout is the one line
\* <code>/<status> in every case.
C4_DeleteExit ==
    (Exited /\ args.cmd = "delete" /\ proc.code = 200) =>
        /\ proc.exit \in { 0, 1 }
        /\ proc.exit = 1 <=>
               (BodyField("status") = "noexist" /\ args.failNoexistArg)
        /\ proc.stdout = << BodyField("code") \o "/" \o BodyField("status") >>

C4_Witness ==
    /\ Exited /\ args.cmd = "delete" /\ proc.code = 200
    /\ BodyField("status") = "noexist" /\ args.failNoexistArg
    /\ proc.exit = 1
    /\ proc.stdout = << args.rmShortcodeArg \o "/noexist" >>

\* shorten without --code, --meta, --server and --apikey, the file a Config
C5_Scenario ==
    /\ args.cmd = "shorten"
    /\ args.shortcodeArg = "" /\ args.metaArg = ""
    /\ args.serverFlag.isNil /\ args.apiKeyFlag = ""
    /\ env.file.kind = "valid"

\* C5: in that scenario at most one request is handed to the client, a POST
\* to <file server>/api/shorten with X-API-Key the file's key and a body
\* whose only member is url, the URL argument; exactly one once the user
\* lookup and the request's construction succeed; and a 200 answer carrying
\* short_url = V leaves stdout the one line V and exit status 0.
C5_ShortenEndToEnd ==
    C5_Scenario =>
        /\ Len(proc.issued) <= 1
        /\ \A i \in 1 .. Len(proc.issued) :
              /\ proc.issued[i].method = "POST"
              /\ proc.issued[i].url = env.file.Server \o "/api/shorten"
              /\ proc.issued[i].header.XAPIKey = env.file.APIKey
              /\ proc.issued[i].body
                    = << <<"url", JStr(URLString(args.shortenUrlArg))>> >>
        /\ (Answered \/ (Exited /\ env.userOK /\ env.file.Server # BadServer))
              => Len(proc.issued) = 1
        /\ (Exited /\ proc.resp.status = 200
                /\ proc.resp.body.json = "object"
                /\ HasKey(proc.resp.body.obj, "short_url"))
              => /\ proc.stdout = << Get(proc.resp.body.obj, "short_url")[2] >>
                 /\ proc.exit = 0

\* the scenario of the specification, letter by letter
C5_Witness ==
    /\ Exited
    /\ args.cmd = "shorten" /\ args.shortcodeArg = "" /\ args.metaArg = ""
    /\ args.serverFlag.isNil /\ args.apiKeyFlag = ""
    /\ URLString(args.shortenUrlArg) = "http://a.com"
    /\ env.file = [kind |-> "valid", APIKey |-> "k1",
                   Server |-> "https://s.example"]
    /\ Len(proc.issued) = 1
    /\ proc.issued[1].url = "https://s.example/api/shorten"
    /\ proc.issued[1].header.XAPIKey = "k1"
    /\ proc.issued[1].body = << <<"url", <<"string", "http://a.com">> >> >>
    /\ proc.resp.status = 200
    /\ proc.stdout = << "https://s.example/abc" >>
    /\ proc.exit = 0

\* C7: without a config file the invocation goes on: the fields are the
\* flags' values or empty, and the request is handed to the client. With a
\* file that cannot be read or parsed the process exits non-zero at
\* serverDetails and no request is ever built or handed over, whatever the
\* flags.
C7_ConfigFile ==
    /\ (env.file.kind = "absent" /\ env.userOK /\ Exited) =>
          /\ Len(proc.issued) = 1
          /\ proc.issued[1].url
                = (IF args.serverFlag.isNil THEN ""
                   ELSE URLString(args.serverFlag)) \o proc.endpoint
          /\ proc.issued[1].header.XAPIKey = args.apiKeyFlag
    /\ env.file.kind \in { "malformed", "unreadable" } =>
          /\ proc.pc \in { "main", "config", "exited" }
          /\ proc.issued = <<>> /\ proc.req = NoRequest
          /\ Exited => proc.exit # 0

C7_Witness ==
    /\ Exited /\ env.userOK
    /\ env.file.kind = "malformed"
    /\ ~args.serverFlag.isNil /\ URLString(args.serverFlag) # ""
    /\ args.apiKeyFlag # ""
    /\ proc.exit = 1 /\ proc.issued = <<>>

\* the status a command's handler has a branch of its own for
SpecialStatus(cmd) ==
    CASE cmd = "shorten" -> { 409 }
      [] cmd = "meta" -> { 404 }
      [] OTHER -> {}

\* C8: an answer whose status is neither 200 nor the command's own special
\* status is fatal: exit status not 0, nothing on stdout, and the last line
\* on stderr names the status.
C8_UnexpectedStatusFatal ==
    (Exited /\ Answered
        /\ proc.resp.status \notin { 200 } \cup SpecialStatus(args.cmd)) =>
        /\ proc.exit # 0
        /\ proc.stdout = <<>>
        /\ proc.unmarshals = 0
        /\ proc.stderr # <<>>
        /\ Last(proc.stderr) \in
              { "pare: error: unexpected response code: "
                    \o ToString(proc.resp.status),
                "pare: error: unexpected response: unexpected response code: "
                    \o ToString(proc.resp.status) }

\* a 409 on meta is not the "noexist" outcome
C8_Witness ==
    /\ Exited /\ args.cmd = "meta" /\ proc.resp.status = 409
    /\ proc.exit = 1 /\ proc.stdout = <<>>
    /\ Last(proc.stderr) = "pare: error: unexpected response code: 409"

\* the endpoint and method of a command
EndpointOf(a) ==
    CASE a.cmd = "shorten" -> "/api/shorten"
      [] a.cmd = "delete" -> "/api/delete"
      [] OTHER -> "/api/meta/" \o a.metaCodeArg
MethodOf(a) == IF a.cmd = "meta" THEN "GET" ELSE "POST"

C10_RequestInvariant ==
    /\ Len(proc.issued) <= 1
    /\ proc.req # NoRequest => ConfigResolved
    /\ \A i \in 1 .. Len(proc.issued) :
          /\ ConfigResolved
          /\ proc.issued[i].header.XAPIKey = proc.config.APIKey
          /\ proc.issued[i].url = proc.config.Server \o EndpointOf(args)
          /\ proc.issued[i].method = MethodOf(args)
    /\ Exited => ~ENABLED Next

\* C10: at most one request is issued per invocation; it carries the
\* resolved key and targets the resolved server followed by the command's
\* endpoint, with the command's method; the config is resolved before the
\* request is built; once a request is issued none follows, the process
\* ends, and the config file is never written.
C10_SingleRequest ==
    /\ []C10_RequestInvariant
    /\ [][/\ env' = env
          /\ proc.issued # <<>> => proc'.issued = proc.issued]_vars

C10_Witness ==
    /\ Exited /\ args.cmd = "meta" /\ Len(proc.issued) = 1
    /\ proc.issued[1].method = "GET"
    /\ proc.issued[1].url = "https://t.example/api/meta/abc"
    /\ proc.issued[1].header.XAPIKey = "k2"
    /\ proc.resp.status = 200

\* a line of the trace debug writes
TraceLines ==
    { "shorten: %s", "rm: %s", "meta: %s", "config: %+v", "txBody: %v",
      "req: %#v", "rxBody: %v", "~/.pare.json doesn't exist; ignoring." }
Untraced(lines) == SelectSeq(lines, LAMBDA l : l \notin TraceLines)

\* C9: two runs that differ in --debug alone are at the same place with
\* the same stdout and the same exit status, and the diagnostic stream of
\* the run with --debug is that of the other run with trace lines added.
C9_DebugInvisible ==
    /\ proc.pc = twin.pc
    /\ proc.stdout = twin.stdout
    /\ proc.exit = twin.exit
    /\ Untraced(proc.stderr) = Untraced(twin.stderr)
    /\ \A r \in { proc, twin } :
          Untraced(r.stderr) = r.stderr \/ r.debugFlag

C9_Witness ==
    /\ proc.pc = "exited" /\ twin.pc = "exited"
    /\ proc.debugFlag /\ ~twin.debugFlag
    /\ args.cmd = "meta" /\ proc.resp.status = 200
    /\ Len(proc.stdout) > 1 /\ proc.stdout = twin.stdout
    /\ Len(proc.stderr) > Len(twin.stderr)

\* json.Unmarshal of an object into a map: its keys and their values
ParseObject(obj) ==
    [k \in { obj[i][1] : i \in 1 .. Len(obj) } |-> Get(obj, k)]

\* how the body treats an optional field whose flag has the value v
OptionalField(body, k, v) ==
    /\ v = "" => ~HasKey(body, k) /\ k \notin DOMAIN ParseObject(body)
    /\ v # "" => /\ HasKey(body, k) /\ Get(body, k) = JStr(v)
                 /\ k \in DOMAIN ParseObject(body)
                 /\ ParseObject(body)[k] = JStr(v)

\* C6: under every definition of ShortenRequest in the source, the
\* serialised body leaves out code (meta) when --code (--meta) is unset or
\* empty and carries it with the flag's value otherwise, so that parsing the
\* body back finds an unset field absent, not null and not "".
C6_OptionalFieldsOmitted ==
    proc.pc = "marshalled" =>
        /\ OptionalField(proc.txBody, "code", args.shortcodeArg)
        /\ OptionalField(proc.txBody, "meta", args.metaArg)

\* the same for the definition with omitempty alone, which is the one the
\* program of pare.go is built with
C6_OmittedWithOmitEmpty ==
    (proc.pc = "marshalled" /\ proc.definition = "omitempty") =>
        /\ OptionalField(proc.txBody, "code", args.shortcodeArg)
        /\ OptionalField(proc.txBody, "meta", args.metaArg)

====
